---- MODULE Spec2Model ----
(***************************************************************************)
(* A model of pdu (ggwpez/pdu): the prefix categorizer, the aggregation    *)
(* pipeline of `pdu info`, the subject search of `pdu grep`, and the pure  *)
(* helpers they use.  Bytes are naturals in 0..255, byte strings are       *)
(* sequences, Option<T> is a sequence of length 0 (None) or 1 (Some).      *)
(***************************************************************************)
EXTENDS Integers, Sequences, FiniteSets, Bags, TLC

VARIABLES
    \* a call of one of the pure functions: its arguments, its result
    args, ret, returned,
    \* the PrefixMap shared by the consumers
    prefix_lookup,
    \* Grep::search_subjects
    subjects, ignore_pallet, grepRx, count, total, reports, last, grepPc,
    \* Info::run: the producer of load_snapshot_kvs (the bag of the records it
    \* has sent) and its channel
    sent, queue, txOpen,
    \* the workers (process_snapshot_chunk) and the mutex around the receiver
    lock, wpc, wItem, wFound,
    \* merge_partial_results
    mergeIdx, merged, mainPc

pureVars == <<args, ret, returned>>
grepVars == <<subjects, ignore_pallet, grepRx, count, total, reports, last, grepPc>>
infoVars == <<sent, queue, txOpen, lock, wpc, wItem, wFound, mergeIdx, merged, mainPc>>
vars == <<args, ret, returned, prefix_lookup,
          subjects, ignore_pallet, grepRx, count, total, reports, last, grepPc,
          sent, queue, txOpen, lock, wpc, wItem, wFound, mergeIdx, merged, mainPc>>

----------------------------------------------------------------------------
(* Bounds of the model *)

\* longest haystack and needle given to is_substr
MaxHay == 4
MaxNeedle == 3

\* bytes of a sample key past its 32-byte prefix
KeyTail == 8

\* records search_subjects receives before the stream ends
MaxStream == 2

\* records of the snapshot the producer streams
MaxRecords == 3

\* slots of the channel between the producer and the workers (channel(1024 * 100)
\* in load_snapshot_kvs, scaled down)
ChannelCapacity == 2

\* worker tasks of the pool (num_cpus::get().max(2))
NumThreads == 2

\* longest byte vector wrapped in a ScaleCompressed
MaxPayload == 4

\* longest compressed payload given to ScaleCompressed::decode
MaxDeflateLen == 4

\* bytes the inflater of ScaleCompressed::decode may produce (4 * 1024 * 1024
\* in the code, scaled down)
DecompressLimit == 4

----------------------------------------------------------------------------
(* Option and byte strings *)

None == <<>>
Some(x) == <<x>>
IsSome(o) == Len(o) = 1
Unwrap(o) == o[1]

\* slice[from..], 0-based as in the source
SliceFrom(s, from) == SubSeq(s, from + 1, Len(s))

\* [T]::starts_with
StartsWith(s, prefix) ==
    /\ Len(prefix) <= Len(s)
    /\ SubSeq(s, 1, Len(prefix)) = prefix

----------------------------------------------------------------------------
(* grep.rs: is_substr *)

RECURSIVE IsSubstrLoop(_, _, _)
IsSubstrLoop(haystack, needle, start) ==
    IF haystack = <<>> THEN None
    ELSE IF StartsWith(haystack, needle) THEN Some(start)
    ELSE IsSubstrLoop(SliceFrom(haystack, 1), needle, start + 1)

\* the same loop leaving while the window is not longer than the needle: the
\* last window is never compared
RECURSIVE IsSubstrLoopShort(_, _, _)
IsSubstrLoopShort(haystack, needle, start) ==
    IF Len(haystack) <= Len(needle) THEN None
    ELSE IF StartsWith(haystack, needle) THEN Some(start)
    ELSE IsSubstrLoopShort(SliceFrom(haystack, 1), needle, start + 1)

IsSubstrSkipLast(haystack, needle) ==
    IF Len(needle) = 0 THEN Some(0)
    ELSE IsSubstrLoopShort(haystack, needle, 0)

\* the empty needle left to the loop
IsSubstrNoEmptyCase(haystack, needle) == IsSubstrLoop(haystack, needle, 0)

IsSubstr(haystack, needle) ==
    IF Len(needle) = 0 THEN Some(0)
    ELSE IsSubstrLoop(haystack, needle, 0)

----------------------------------------------------------------------------
(* main.rs: the prefix index and the categorizer *)

\* the lengths of a pallet prefix and of a pallet-and-item prefix
PalletPrefixLen == 16
ItemPrefixLen == 32

\* BTreeMap: a function; insert replaces the value of a key already present
EmptyMap == [x \in {} |-> 0]

\* an insert that keeps the value of a key already present
MapInsertKeepFirst(m, k, v) ==
    IF k \in DOMAIN m THEN m
    ELSE [x \in DOMAIN m \cup {k} |-> IF x = k THEN v ELSE m[x]]

MapInsert(m, k, v) == [x \in DOMAIN m \cup {k} |-> IF x = k THEN v ELSE m[x]]

\* sp_crypto_hashing::twox_128: 16 bytes that depend on the name alone
NameCode(name) ==
    CASE name = "Balances" -> 17
      [] name = "System" -> 38
      [] name = "Account" -> 101
      [] name = "Number" -> 150
      [] OTHER -> 211

Twox128(name) == [i \in 1..16 |-> (NameCode(name) + 7 * i) % 256]

\* a PalletMetadata: its name and, when it has storage, its entries' names
PalletMeta(name, storage) == [name |-> name, storage |-> storage]

\* the value type of PrefixMap: (String, Option<StorageEntryMetadata>)
PrefixEntry(pallet, storage) == [pallet |-> pallet, storage |-> storage]

\* the loop over the entries with the entry hash alone as the key
RECURSIVE InsertEntriesItemHashOnly(_, _, _, _)
InsertEntriesItemHashOnly(lookup, pallet, entries, i) ==
    IF i > Len(entries) THEN lookup
    ELSE InsertEntriesItemHashOnly(
             MapInsert(lookup, Twox128(entries[i]), PrefixEntry(pallet, Some(entries[i]))),
             pallet, entries, i + 1)

\* the loop over storage.entries(): full_hash is the pallet hash followed by
\* the entry hash
RECURSIVE InsertEntries(_, _, _, _)
InsertEntries(lookup, pallet, entries, i) ==
    IF i > Len(entries) THEN lookup
    ELSE LET full_hash == Twox128(pallet) \o Twox128(entries[i])
         IN InsertEntries(MapInsert(lookup, full_hash, PrefixEntry(pallet, Some(entries[i]))),
                          pallet, entries, i + 1)

RECURSIVE BuildPrefixLookupFrom(_, _, _)
BuildPrefixLookupFrom(lookup, pallets, i) ==
    IF i > Len(pallets) THEN lookup
    ELSE LET pallet == pallets[i]
             withPallet == MapInsert(lookup, Twox128(pallet.name), PrefixEntry(pallet.name, None))
             withItems == IF IsSome(pallet.storage)
                          THEN InsertEntries(withPallet, pallet.name, Unwrap(pallet.storage), 1)
                          ELSE withPallet
         IN BuildPrefixLookupFrom(withItems, pallets, i + 1)

BuildPrefixLookup(pallets) == BuildPrefixLookupFrom(EmptyMap, pallets, 1)

\* CategorizedKey
Item(pallet, item) == [tag |-> "Item", pallet |-> pallet, item |-> item]
Pallet(pallet) == [tag |-> "Pallet", pallet |-> pallet, item |-> ""]
Unknown == [tag |-> "Unknown", pallet |-> "", item |-> ""]
\* not a CategorizedKey: the call panicked (a slice out of range)
Panicked == [tag |-> "Panic", pallet |-> "", item |-> ""]

\* From<(String, Option<StorageEntryMetadata>)> for CategorizedKey
FromEntry(entry) ==
    IF IsSome(entry.storage) THEN Item(entry.pallet, Unwrap(entry.storage))
    ELSE Pallet(entry.pallet)

\* one block of categorize_prefix: &key[0..n], then lookup.get(prefix).
\* Some(result) when the block returns, None when it falls through.
TryPrefix(key, lookup, n) ==
    IF n > Len(key) THEN Some(Panicked)
    ELSE LET prefix == SubSeq(key, 1, n)
         IN IF prefix \in DOMAIN lookup THEN Some(FromEntry(lookup[prefix])) ELSE None

\* categorize_prefix without the length test of its second block
CategorizePrefixNoLenCheck(key, lookup) ==
    LET long == IF Len(key) >= ItemPrefixLen THEN TryPrefix(key, lookup, ItemPrefixLen) ELSE None
    IN IF IsSome(long) THEN Unwrap(long)
       ELSE LET short == TryPrefix(key, lookup, PalletPrefixLen)
            IN IF IsSome(short) THEN Unwrap(short) ELSE Unknown

\* categorize_prefix trying the 16-byte prefix before the 32-byte one
CategorizePrefixShortFirst(key, lookup) ==
    LET short == IF Len(key) >= PalletPrefixLen THEN TryPrefix(key, lookup, PalletPrefixLen) ELSE None
    IN IF IsSome(short) THEN Unwrap(short)
       ELSE LET long == IF Len(key) >= ItemPrefixLen THEN TryPrefix(key, lookup, ItemPrefixLen) ELSE None
            IN IF IsSome(long) THEN Unwrap(long) ELSE Unknown

CategorizePrefix(key, lookup) ==
    LET long == IF Len(key) >= ItemPrefixLen THEN TryPrefix(key, lookup, ItemPrefixLen) ELSE None
    IN IF IsSome(long) THEN Unwrap(long)
       ELSE LET short == IF Len(key) >= PalletPrefixLen THEN TryPrefix(key, lookup, PalletPrefixLen) ELSE None
            IN IF IsSome(short) THEN Unwrap(short) ELSE Unknown

----------------------------------------------------------------------------
(* grep.rs: para_id_to_address *)

\* the length of an account address
AddressLen == 32

\* u16::MAX, the largest para id
MaxParaId == 65535

\* b"para" and b"sibl"
ParaTag == <<112, 97, 114, 97>>
SiblTag == <<115, 105, 98, 108>>

\* <u16 as Encode>::encode: two bytes, low byte first
EncodeU16(n) == <<n % 256, (n \div 256) % 256>>

\* two bytes, high byte first
EncodeU16BigEndian(n) == <<(n \div 256) % 256, n % 256>>

\* bytes[at .. at + src.len()].copy_from_slice(src), at 0-based
CopyFromSlice(bytes, at, src) ==
    [i \in 1..Len(bytes) |-> IF at < i /\ i <= at + Len(src) THEN src[i - at] ELSE bytes[i]]

\* para_id_to_address writing the id high byte first
ParaIdToAddressBigEndian(location, para_id) ==
    LET prefix == IF location = "Child" THEN ParaTag ELSE SiblTag
        zeroed == [i \in 1..AddressLen |-> 0]
        tagged == CopyFromSlice(zeroed, 0, prefix)
    IN CopyFromSlice(tagged, 4, EncodeU16BigEndian(para_id))

\* para_id_to_address writing the low byte of the id only
ParaIdToAddressLowByte(location, para_id) ==
    LET prefix == IF location = "Child" THEN ParaTag ELSE SiblTag
        zeroed == [i \in 1..AddressLen |-> 0]
        tagged == CopyFromSlice(zeroed, 0, prefix)
    IN CopyFromSlice(tagged, 4, <<para_id % 256>>)

ParaIdToAddress(location, para_id) ==
    LET prefix == IF location = "Child" THEN ParaTag ELSE SiblTag
        zeroed == [i \in 1..AddressLen |-> 0]
        tagged == CopyFromSlice(zeroed, 0, prefix)
        encoded_id == EncodeU16(para_id)
    IN CopyFromSlice(tagged, 4, encoded_id)

----------------------------------------------------------------------------
(* grep.rs: Subject and Grep::search_subjects *)

\* Subject::Address and Subject::ParaAccount: both carry the pattern searched for
SubjectAddress(address) == [kind |-> "Address", address |-> address]
SubjectParaAccount(location, para_id, address) ==
    [kind |-> "ParaAccount", address |-> address]

\* Subject::matches
Matches(subject, data) == IsSome(IsSubstr(data, subject.address))

\* the loop over the subjects, for one field: found_in_* is overwritten by every
\* subject that matches, so it ends as the last one (its position in subjects)
RECURSIVE FindSubjectFrom(_, _, _, _)
FindSubjectFrom(subjs, data, i, found) ==
    IF i > Len(subjs) THEN found
    ELSE FindSubjectFrom(subjs, data, i + 1,
                         IF Matches(subjs[i], data) THEN Some(i) ELSE found)

\* the same loop keeping the first subject that matches
RECURSIVE FindFirstSubjectFrom(_, _, _, _)
FindFirstSubjectFrom(subjs, data, i, found) ==
    IF i > Len(subjs) THEN found
    ELSE FindFirstSubjectFrom(subjs, data, i + 1,
                              IF Matches(subjs[i], data) /\ ~IsSome(found) THEN Some(i) ELSE found)

FindSubjectKeepFirst(subjs, data) == FindFirstSubjectFrom(subjs, data, 1, None)

FindSubject(subjs, data) == FindSubjectFrom(subjs, data, 1, None)

\* Grep::is_ignored
IsIgnored(ignore, info) ==
    IF info.tag = "Item"
    THEN IF IsSome(ignore) THEN Unwrap(ignore) = info.pallet ELSE FALSE
    ELSE FALSE

\* the lines printed for the record number `at` of the stream
KeyReport(at, subject, info) == [at |-> at, field |-> "KEY", subject |-> subject, info |-> info]
ValueReport(at, subject, info) == [at |-> at, field |-> "VALUE", subject |-> subject, info |-> info]

----------------------------------------------------------------------------
(* info.rs: the statistics maps, process_snapshot_chunk, merge_partial_results *)

\* ansi_term::Color::Yellow.paint("Unknown").to_string()
UnknownName == "\\e[33mUnknown\\e[0m"

\* compress_size: the length of the deflate stream of the data (miniz_oxide),
\* a function of the data alone
CompressSize(data) == 2 + (Len(data) \div 4)

\* ItemInfo with every sum at zero
NewItemInfo(name) ==
    [name |-> name, key_len |-> 0, compressed_key_len |-> 0, value_len |-> 0,
     compressed_value_len |-> 0, num_entries |-> 0]

\* PalletInfo with every sum at zero and no item
NewPalletInfo(name) ==
    [name |-> name, size |-> 0, compressed_size |-> 0, items |-> EmptyMap]

\* map.entry(k).or_insert(v): the map with v under k when k is absent
OrInsert(m, k, v) == IF k \in DOMAIN m THEN m ELSE MapInsert(m, k, v)

\* the names of the pallet and of the item a CategorizedKey is accounted under
PalletNameOf(cat) == IF cat.tag = "Unknown" THEN UnknownName ELSE cat.pallet
ItemNameOf(cat) == IF cat.tag = "Item" THEN cat.item ELSE UnknownName

\* one arm of the match of process_snapshot_chunk: the record is added to the
\* item and to the pallet
AddRecord(found_by_pallet, pallet, item_name, key, value) ==
    LET compressed_key_len == CompressSize(key)
        compressed_value_len == CompressSize(value)
        withPallet == OrInsert(found_by_pallet, pallet, NewPalletInfo(pallet))
        pallet_info == withPallet[pallet]
        withItem == OrInsert(pallet_info.items, item_name, NewItemInfo(item_name))
        item_info == withItem[item_name]
        item_info2 == [item_info EXCEPT
                          !.key_len = @ + Len(key),
                          !.compressed_key_len = @ + compressed_key_len,
                          !.value_len = @ + Len(value),
                          !.compressed_value_len = @ + compressed_value_len,
                          !.num_entries = @ + 1]
        pallet_info2 == [pallet_info EXCEPT
                          !.items = MapInsert(withItem, item_name, item_info2),
                          !.compressed_size = @ + compressed_key_len + compressed_value_len,
                          !.size = @ + Len(key) + Len(value)]
    IN MapInsert(withPallet, pallet, pallet_info2)

\* the loop body with the arm of CategorizedKey::Pallet accounting the record
\* under the unknown category
ProcessRecordPalletAsUnknown(found_by_pallet, key, value, lookup) ==
    LET cat == CategorizePrefix(key, lookup)
    IN AddRecord(found_by_pallet,
                 IF cat.tag = "Item" THEN cat.pallet ELSE UnknownName,
                 ItemNameOf(cat), key, value)

\* the body of the loop of process_snapshot_chunk for a received record
ProcessRecord(found_by_pallet, key, value, lookup) ==
    LET cat == CategorizePrefix(key, lookup)
    IN AddRecord(found_by_pallet, PalletNameOf(cat), ItemNameOf(cat), key, value)

\* the and_modify closure of an item present on both sides, without num_entries
MergeItemNoCount(existing_item, item_info) ==
    [existing_item EXCEPT
        !.key_len = @ + item_info.key_len,
        !.value_len = @ + item_info.value_len]

\* the and_modify closure assigning the sums of the partial map instead of
\* adding them
MergeItemReplace(existing_item, item_info) ==
    [existing_item EXCEPT
        !.key_len = item_info.key_len,
        !.value_len = item_info.value_len,
        !.num_entries = item_info.num_entries]

\* the and_modify closure of an item present on both sides
MergeItem(existing_item, item_info) ==
    [existing_item EXCEPT
        !.key_len = @ + item_info.key_len,
        !.value_len = @ + item_info.value_len,
        !.num_entries = @ + item_info.num_entries]

\* the loop over the items of a pallet present on both sides
MergeItems(existing_items, items) ==
    [n \in DOMAIN existing_items \cup DOMAIN items |->
        IF n \notin DOMAIN items THEN existing_items[n]
        ELSE IF n \notin DOMAIN existing_items THEN items[n]
        ELSE MergeItem(existing_items[n], items[n])]

\* the and_modify closure of a pallet merging the items and leaving the size
\* of the pallet as it was
MergePalletKeepSize(existing, pallet_info) ==
    [existing EXCEPT
        !.items = MergeItems(existing.items, pallet_info.items)]

\* the and_modify closure of a pallet present on both sides
MergePallet(existing, pallet_info) ==
    [existing EXCEPT
        !.size = @ + pallet_info.size,
        !.items = MergeItems(existing.items, pallet_info.items)]

\* the loop over one partial result: entry(pallet).and_modify(..).or_insert(..)
MergePartial(found_by_pallet, partial_result) ==
    [p \in DOMAIN found_by_pallet \cup DOMAIN partial_result |->
        IF p \notin DOMAIN partial_result THEN found_by_pallet[p]
        ELSE IF p \notin DOMAIN found_by_pallet THEN partial_result[p]
        ELSE MergePallet(found_by_pallet[p], partial_result[p])]

----------------------------------------------------------------------------
(* Idle values of the parts a specification does not exercise *)

NoCall == [fn |-> "none"]

PureIdle ==
    /\ args = NoCall
    /\ ret = None
    /\ returned = FALSE

GrepIdle ==
    /\ subjects = <<>>
    /\ ignore_pallet = None
    /\ grepRx = <<>>
    /\ count = 0
    /\ total = 0
    /\ reports = <<>>
    /\ last = None
    /\ grepPc = "idle"

InfoIdle ==
    /\ sent = EmptyBag
    /\ queue = <<>>
    /\ txOpen = FALSE
    /\ lock = 0
    /\ wpc = <<>>
    /\ wItem = <<>>
    /\ wFound = <<>>
    /\ mergeIdx = 0
    /\ merged = EmptyMap
    /\ mainPc = "idle"

----------------------------------------------------------------------------
(* Specification of is_substr over bounded inputs *)

Bytes2 == {1, 2}

SeqsUpTo(S, n) == UNION {[1..k -> S] : k \in 0..n}

InitSubstr ==
    /\ \E h \in SeqsUpTo(Bytes2, MaxHay), n \in SeqsUpTo(Bytes2, MaxNeedle) :
          args = [fn |-> "is_substr", haystack |-> h, needle |-> n]
    /\ ret = None
    /\ returned = FALSE
    /\ prefix_lookup = EmptyMap
    /\ GrepIdle
    /\ InfoIdle

CallIsSubstr ==
    /\ args.fn = "is_substr"
    /\ ~returned
    /\ ret' = IsSubstr(args.haystack, args.needle)
    /\ returned' = TRUE
    /\ UNCHANGED <<args, prefix_lookup, grepVars, infoVars>>

NextSubstr == CallIsSubstr

SpecSubstr == InitSubstr /\ [][NextSubstr]_vars

\* needle occurs in haystack at the 0-based index i
OccursAt(haystack, needle, i) ==
    /\ i + Len(needle) <= Len(haystack)
    /\ \A j \in 1..Len(needle) : haystack[i + j] = needle[j]

Occurs(haystack, needle) == \E i \in 0..Len(haystack) : OccursAt(haystack, needle, i)

\* C6: for a non-empty needle, is_substr returns Some(i) with i the lowest index
\* at which the needle occurs contiguously in the haystack, and None exactly
\* when it occurs nowhere (in particular when it is longer than the haystack).
C6_LowestIndex ==
    (returned /\ args.fn = "is_substr" /\ Len(args.needle) > 0) =>
        LET h == args.haystack
            n == args.needle
        IN /\ IsSome(ret) <=> Occurs(h, n)
           /\ IsSome(ret) =>
                 /\ OccursAt(h, n, Unwrap(ret))
                 /\ \A k \in 0..(Unwrap(ret) - 1) : ~OccursAt(h, n, k)
           /\ Len(n) > Len(h) => ret = None

\* a needle that occurs twice, first at a later index than 0, has been found
C6_Witness ==
    /\ returned
    /\ args.fn = "is_substr"
    /\ args.haystack = <<1, 2, 1, 2>>
    /\ args.needle = <<2>>
    /\ ret = Some(1)

\* C7: is_substr(h, []) returns Some(0) for every haystack, the empty one
\* included.
C7_EmptyNeedle ==
    (returned /\ args.fn = "is_substr" /\ args.needle = <<>>) => ret = Some(0)

\* the empty needle has been looked up in the empty haystack
C7_Witness ==
    /\ returned
    /\ args.fn = "is_substr"
    /\ args.haystack = <<>>
    /\ args.needle = <<>>
    /\ ret = Some(0)

----------------------------------------------------------------------------
(* Specification of categorize_prefix over bounded inputs *)

\* the pallets of the metadata, sorted by name as Info::run and Grep::run sort them
Pallets ==
    << PalletMeta("Balances", None),
       PalletMeta("System", Some(<<"Account", "Number">>)) >>

\* n bytes that are no digest of a name of the metadata
Junk(n) == [i \in 1..n |-> 255 - i]

\* the first n bytes of s, all of s when it is shorter
Take(s, n) == SubSeq(s, 1, IF n < Len(s) THEN n ELSE Len(s))

\* keys that begin with an indexed 32-byte prefix, with an indexed 16-byte
\* prefix only, or with neither, cut at every length up to 32 + KeyTail
KeyBases ==
    { Twox128("System") \o Twox128("Account") \o Junk(KeyTail),
      Twox128("System") \o Junk(PalletPrefixLen + KeyTail),
      Twox128("Balances") \o Twox128("Account") \o Junk(KeyTail),
      Junk(ItemPrefixLen + KeyTail) }

KeyLens == {0, 5, 10, 15, 16, 17, 20, 31, 32, 33, ItemPrefixLen + KeyTail}

TestKeys == { Take(b, n) : b \in KeyBases, n \in KeyLens }

\* the index of the metadata, the empty index, and an index whose 16-byte entry
\* records an item and whose 32-byte entry records none
TestLookups ==
    { BuildPrefixLookup(Pallets),
      EmptyMap,
      MapInsert(MapInsert(EmptyMap, Twox128("System"), PrefixEntry("System", Some("Number"))),
                Twox128("System") \o Twox128("Account"), PrefixEntry("Sys", None)) }

InitCategorize ==
    /\ \E key \in TestKeys : args = [fn |-> "categorize_prefix", key |-> key]
    /\ prefix_lookup \in TestLookups
    /\ ret = None
    /\ returned = FALSE
    /\ GrepIdle
    /\ InfoIdle

CallCategorizePrefix ==
    /\ args.fn = "categorize_prefix"
    /\ ~returned
    /\ ret' = CategorizePrefix(args.key, prefix_lookup)
    /\ returned' = TRUE
    /\ UNCHANGED <<args, prefix_lookup, grepVars, infoVars>>

NextCategorize == CallCategorizePrefix

SpecCategorize == InitCategorize /\ [][NextCategorize]_vars

\* C4: categorize_prefix is total: for every key, the empty key and keys shorter
\* than 16 bytes included, and every index, the call returns exactly one of
\* Item, Pallet (Category) or Unknown and never panics.
C4_Total ==
    (returned /\ args.fn = "categorize_prefix") =>
        /\ ret.tag \in {"Item", "Pallet", "Unknown"}
        /\ ret.tag # "Panic"

\* a key of 10 bytes has been categorized against a non-empty index
C4_Witness ==
    /\ returned
    /\ args.fn = "categorize_prefix"
    /\ Len(args.key) = 10
    /\ DOMAIN prefix_lookup # {}
    /\ ret = Unknown

\* the result the claim C5 describes, by cases on the key and the index
C5_Expected(key, lookup) ==
    LET p32 == SubSeq(key, 1, 32)
        p16 == SubSeq(key, 1, 16)
        of(e) == IF e.storage # None THEN Item(e.pallet, e.storage[1]) ELSE Pallet(e.pallet)
    IN IF Len(key) >= 32 /\ p32 \in DOMAIN lookup THEN of(lookup[p32])
       ELSE IF Len(key) >= 16 /\ p16 \in DOMAIN lookup THEN of(lookup[p16])
       ELSE Unknown

\* C5: the first 32 bytes decide when the key has them and they are indexed;
\* otherwise the first 16 bytes decide when the key has them and they are
\* indexed (also for a key of 32 or more bytes whose 32-byte prefix is not
\* indexed); otherwise the result is Unknown.  An entry with an item gives
\* Item(category, item), one without gives Pallet(category).
C5_Order ==
    (returned /\ args.fn = "categorize_prefix") =>
        ret = C5_Expected(args.key, prefix_lookup)

\* a key of more than 32 bytes whose 32-byte prefix is not indexed has been
\* resolved by its 16-byte prefix
C5_Witness ==
    /\ returned
    /\ args.fn = "categorize_prefix"
    /\ Len(args.key) > 32
    /\ SubSeq(args.key, 1, 32) \notin DOMAIN prefix_lookup
    /\ SubSeq(args.key, 1, 16) \in DOMAIN prefix_lookup
    /\ ret = Pallet("System")

----------------------------------------------------------------------------
(* Specification of para_id_to_address over every location and para id *)

ParaLocations == {"Child", "Sibling"}

\* para_id: u16, every value of the type
ParaIds == 0..MaxParaId

InitPara ==
    /\ \E location \in ParaLocations, para_id \in ParaIds :
          args = [fn |-> "para_id_to_address", location |-> location, para_id |-> para_id]
    /\ ret = None
    /\ returned = FALSE
    /\ prefix_lookup = EmptyMap
    /\ GrepIdle
    /\ InfoIdle

CallParaIdToAddress ==
    /\ args.fn = "para_id_to_address"
    /\ ~returned
    /\ ret' = ParaIdToAddress(args.location, args.para_id)
    /\ returned' = TRUE
    /\ UNCHANGED <<args, prefix_lookup, grepVars, infoVars>>

NextPara == CallParaIdToAddress

SpecPara == InitPara /\ [][NextPara]_vars

\* the SCALE compact encoding of a 16-bit value: one byte below 2^6, two bytes
\* below 2^14, four bytes above, the two low bits holding the width
CompactU16(n) ==
    IF n < 64 THEN <<4 * n>>
    ELSE IF n < 16384
    THEN <<(4 * n + 1) % 256, ((4 * n + 1) \div 256) % 256>>
    ELSE <<(4 * n + 2) % 256, ((4 * n + 2) \div 256) % 256,
           ((4 * n + 2) \div 65536) % 256, ((4 * n + 2) \div 16777216) % 256>>

\* the 4 ASCII bytes of "para" and of "sibl", spelled out
C8_Tag(location) ==
    IF location = "Child" THEN <<112, 97, 114, 97>> ELSE <<115, 105, 98, 108>>

\* the properties of the pattern that do not depend on the encoding of the id
C8_Frame(location, out) ==
    /\ Len(out) = 32
    /\ SubSeq(out, 1, 4) = C8_Tag(location)
    /\ C8_Tag("Child") # C8_Tag("Sibling")
    /\ (location = "Child" /\ args.para_id = 0) =>
          out = C8_Tag("Child") \o [i \in 1..28 |-> 0]

\* C8 as claimed: 32 bytes, the 4-byte tag of the location, then the compact
\* encoding of numeric_id, then zeros only.
C8_CompactEncoding ==
    (returned /\ args.fn = "para_id_to_address") =>
        LET enc == CompactU16(args.para_id)
        IN /\ C8_Frame(args.location, ret)
           /\ SubSeq(ret, 5, 4 + Len(enc)) = enc
           /\ \A i \in (5 + Len(enc))..32 : ret[i] = 0

\* C8 (amended): 32 bytes, the 4-byte tag of the location ("para" for Child,
\* "sibl" for Sibling), then numeric_id as a fixed-width 16-bit little-endian
\* integer in the next two bytes, then 26 zero bytes; Child with id 0 is the
\* tag followed by 28 zero bytes.
C8_FixedWidthEncoding ==
    (returned /\ args.fn = "para_id_to_address") =>
        /\ C8_Frame(args.location, ret)
        /\ ret[5] + 256 * ret[6] = args.para_id
        /\ ret[5] \in 0..255
        /\ ret[6] \in 0..255
        /\ \A i \in 7..32 : ret[i] = 0

\* the pattern of a Sibling id whose two bytes are both non-zero has been
\* derived
C8_Witness ==
    /\ returned
    /\ args.fn = "para_id_to_address"
    /\ args.location = "Sibling"
    /\ args.para_id = 257
    /\ ret[5] = 1
    /\ ret[6] = 1

----------------------------------------------------------------------------
(* Specification of Grep::search_subjects *)

PatA == <<1, 2, 3>>
PatB == <<4, 5>>
PatC == <<2, 3>>

TestSubjectLists ==
    { <<SubjectAddress(PatA), SubjectAddress(PatB)>>,
      <<SubjectAddress(PatA), SubjectAddress(PatC)>>,
      <<SubjectAddress(PatC), SubjectAddress(PatA)>>,
      <<SubjectAddress(PatB)>> }

TestIgnores == {None, Some("System"), Some("Balances"), Some("system")}

KV(key, value) == [key |-> key, value |-> value]

\* records that match in the key, in the value, in both or in neither, under
\* each kind of category
GrepRecords ==
    { KV(<<0, 1, 2, 3, 9>>, <<9>>),
      KV(Twox128("System") \o Twox128("Account") \o <<1, 2, 3>>, <<4, 5>>),
      KV(Twox128("Balances") \o <<9, 9>>, <<0, 4, 5, 1, 2, 3>>),
      KV(Twox128("System") \o <<4, 5>>, <<9>>),
      KV(<<9, 9>>, <<9>>),
      KV(Twox128("System") \o Twox128("Account") \o <<9>>, <<9>>) }

InitGrep ==
    /\ PureIdle
    /\ InfoIdle
    /\ prefix_lookup = BuildPrefixLookup(Pallets)
    /\ subjects \in TestSubjectLists
    /\ ignore_pallet \in TestIgnores
    /\ grepRx = <<>>
    /\ count = 0
    /\ total = 0
    /\ reports = <<>>
    /\ last = None
    /\ grepPc = "loop"

\* the body of the while loop of search_subjects after total += 1, for the
\* at-th record received: the subjects found, whether the record passed the
\* `continue` of the no-match arm, and the lines printed
LoopBody(subjs, ignore, lookup, rec, at) ==
    LET found_in_key == FindSubject(subjs, rec.key)
        found_in_value == FindSubject(subjs, rec.value)
        matched == IsSome(found_in_key) \/ IsSome(found_in_value)
        info == CategorizePrefix(rec.key, lookup)
        k == IF IsSome(found_in_key)
             THEN <<KeyReport(at, Unwrap(found_in_key), info)>> ELSE <<>>
        v == IF IsSome(found_in_value)
             THEN <<ValueReport(at, Unwrap(found_in_value), info)>> ELSE <<>>
    IN [matched |-> matched,
        last |-> Some([found_in_key |-> found_in_key, found_in_value |-> found_in_value]),
        lines |-> IF matched /\ ~IsIgnored(ignore, info) THEN k \o v ELSE <<>>]

\* the loop body with total += 1 moved behind the `continue` of the no-match arm
SearchStepTotalOnMatch(subjs, ignore, lookup, rec, at, cnt, tot) ==
    LET body == LoopBody(subjs, ignore, lookup, rec, at)
    IN [total |-> IF body.matched THEN tot + 1 ELSE tot,
        count |-> IF body.matched THEN cnt + 1 ELSE cnt,
        last |-> body.last,
        lines |-> body.lines]

\* the loop body with count += 1 moved before the `continue` of the no-match arm
SearchStepCountEveryRecord(subjs, ignore, lookup, rec, at, cnt, tot) ==
    LET body == LoopBody(subjs, ignore, lookup, rec, at)
    IN [total |-> tot + 1,
        count |-> cnt + 1,
        last |-> body.last,
        lines |-> body.lines]

\* the loop body with the VALUE line printed before the KEY line
SearchStepValueFirst(subjs, ignore, lookup, rec, at, cnt, tot) ==
    LET body == LoopBody(subjs, ignore, lookup, rec, at)
    IN [total |-> tot + 1,
        count |-> IF body.matched THEN cnt + 1 ELSE cnt,
        last |-> body.last,
        lines |-> [n \in 1..Len(body.lines) |-> body.lines[Len(body.lines) + 1 - n]]]

\* one turn of the while loop: the counters and the lines printed
SearchStep(subjs, ignore, lookup, rec, at, cnt, tot) ==
    LET body == LoopBody(subjs, ignore, lookup, rec, at)
    IN [total |-> tot + 1,
        count |-> IF body.matched THEN cnt + 1 ELSE cnt,
        last |-> body.last,
        lines |-> body.lines]

\* rx.recv() yields Some(Some((key, value))): one turn of the while loop
GrepRecord ==
    /\ grepPc = "loop"
    /\ Len(grepRx) < MaxStream
    /\ \E rec \in GrepRecords :
          LET step == SearchStep(subjects, ignore_pallet, prefix_lookup, rec,
                                 Len(grepRx) + 1, count, total)
          IN /\ grepRx' = Append(grepRx, rec)
             /\ total' = step.total
             /\ last' = step.last
             /\ count' = step.count
             /\ reports' = reports \o step.lines
    /\ UNCHANGED <<pureVars, infoVars, prefix_lookup, subjects, ignore_pallet, grepPc>>

\* rx.recv() yields Some(None), the sentinel, or None, the channel closed and
\* empty: the loop ends and the counters are printed
GrepEnd ==
    /\ grepPc = "loop"
    /\ grepPc' \in {"sentinel", "closed"}
    /\ UNCHANGED <<pureVars, infoVars, prefix_lookup, subjects, ignore_pallet, grepRx,
                   count, total, reports, last>>

\* search_subjects has printed "Matched {count} times in {total} entries"
GrepDone == grepPc \in {"sentinel", "closed"}

NextGrep == GrepRecord \/ GrepEnd

SpecGrep == InitGrep /\ [][NextGrep]_vars

\* a subject's pattern occurs in the field
C9_OccursIn(i, data) == Occurs(data, subjects[i].address)

\* the last subject, in input order, whose pattern occurs in the field; 0 when
\* none does
C9_LastOccurring(data) ==
    LET hits == {i \in 1..Len(subjects) : C9_OccursIn(i, data)}
    IN IF hits = {} THEN 0 ELSE CHOOSE i \in hits : \A j \in hits : j <= i

C9_AsOption(i) == IF i = 0 THEN <<>> ELSE <<i>>

\* C9: the subject attributed to a field is decided for the key and for the
\* value independently: a field matches iff some subject's pattern occurs in it
\* as a contiguous subsequence, and the subject attributed is the last one, in
\* input order, whose pattern occurs in that field.
C9_LastSubjectWins ==
    /\ (grepPc # "idle" /\ IsSome(last)) =>
          LET rec == grepRx[Len(grepRx)]
          IN /\ Unwrap(last).found_in_key = C9_AsOption(C9_LastOccurring(rec.key))
             /\ Unwrap(last).found_in_value = C9_AsOption(C9_LastOccurring(rec.value))
    /\ \A r \in 1..Len(reports) :
          LET rep == reports[r]
              rec == grepRx[rep.at]
          IN rep.subject = C9_LastOccurring(IF rep.field = "KEY" THEN rec.key ELSE rec.value)

\* two subjects occur in the key of a record and its KEY report names the
\* later one
C9_Witness ==
    /\ grepPc = "loop"
    /\ Len(subjects) = 2
    /\ \E r \in 1..Len(reports) :
          /\ reports[r].field = "KEY"
          /\ reports[r].subject = 2
          /\ C9_OccursIn(1, grepRx[reports[r].at].key)
          /\ C9_OccursIn(2, grepRx[reports[r].at].key)

\* the category name a record is labelled with ("" when it has none)
C10_CategoryName(rec) == CategorizePrefix(rec.key, prefix_lookup).pallet

C10_HasMatch(rec) ==
    \E i \in 1..Len(subjects) : C9_OccursIn(i, rec.key) \/ C9_OccursIn(i, rec.value)

\* C10: after the stream is exhausted, the match count equals the number of
\* scanned records that have a match in key or value and whose category is
\* not the ignored one.
C10_CountExcludesIgnored ==
    GrepDone =>
        count = Cardinality({ i \in 1..Len(grepRx) :
                                /\ C10_HasMatch(grepRx[i])
                                /\ ignore_pallet # <<C10_CategoryName(grepRx[i])>> })

----------------------------------------------------------------------------
(* Specification of Info::run: producer, channel, workers, merge *)

Workers == 1..NumThreads

Zeros(n) == [i \in 1..n |-> 0]

\* records of the snapshot: two keys too short for any category, a key of a
\* known item, a key of a pallet alone
InfoRecords ==
    { KV(Junk(10), Zeros(20)),
      KV(Junk(5), Zeros(5)),
      KV(Twox128("System") \o Twox128("Account") \o Junk(4), Zeros(8)),
      KV(Twox128("Balances"), Zeros(5)) }

\* load_snapshot_kvs has returned rx and spawned its producer, Info::run has
\* built the index and spawned the workers, and awaits the first handle
InitInfo ==
    /\ PureIdle
    /\ GrepIdle
    /\ prefix_lookup = BuildPrefixLookup(Pallets)
    /\ sent = EmptyBag
    /\ queue = <<>>
    /\ txOpen = TRUE
    /\ lock = 0
    /\ wpc = [w \in Workers |-> "poll"]
    /\ wItem = [w \in Workers |-> None]
    /\ wFound = [w \in Workers |-> EmptyMap]
    /\ mergeIdx = 1
    /\ merged = EmptyMap
    /\ mainPc = "merge"

\* a send that does not wait for a free slot: an unbounded channel
ProducerSendFromUnbounded(S) ==
    /\ txOpen
    /\ BagCardinality(sent) < MaxRecords
    /\ \E rec \in S :
          /\ sent' = sent (+) SetToBag({rec})
          /\ queue' = Append(queue, Some(rec))
    /\ UNCHANGED <<pureVars, grepVars, prefix_lookup, txOpen, lock, wpc, wItem, wFound,
                   mergeIdx, merged, mainPc>>

\* tx.send(Some((key, value))).await of a record of the snapshot S: waits
\* while the channel is full
ProducerSendFrom(S) ==
    /\ txOpen
    /\ BagCardinality(sent) < MaxRecords
    /\ Len(queue) < ChannelCapacity
    /\ \E rec \in S :
          /\ sent' = sent (+) SetToBag({rec})
          /\ queue' = Append(queue, Some(rec))
    /\ UNCHANGED <<pureVars, grepVars, prefix_lookup, txOpen, lock, wpc, wItem, wFound,
                   mergeIdx, merged, mainPc>>

ProducerSend == ProducerSendFrom(InfoRecords)

\* the producer task ends after the last key: tx is dropped
ProducerClose ==
    /\ txOpen
    /\ txOpen' = FALSE
    /\ UNCHANGED <<pureVars, grepVars, prefix_lookup, sent, queue, lock, wpc, wItem, wFound,
                   mergeIdx, merged, mainPc>>

\* rx.lock().unwrap()
WorkerLock(w) ==
    /\ wpc[w] = "poll"
    /\ lock = 0
    /\ lock' = w
    /\ wpc' = [wpc EXCEPT ![w] = "locked"]
    /\ UNCHANGED <<pureVars, grepVars, prefix_lookup, sent, queue, txOpen, wItem, wFound,
                   mergeIdx, merged, mainPc>>

\* try_recv that returns the head of the channel and leaves it there
TryRecvPeek(q, open) ==
    IF q # <<>> THEN [tag |-> "Ok", value |-> Head(q), rest |-> q]
    ELSE IF open THEN [tag |-> "Empty", value |-> None, rest |-> q]
    ELSE [tag |-> "Disconnected", value |-> None, rest |-> q]

\* Receiver::try_recv on the channel holding q, the sender alive or dropped:
\* Ok(head) with the head removed, Err(Empty) or Err(Disconnected)
TryRecv(q, open) ==
    IF q # <<>> THEN [tag |-> "Ok", value |-> Head(q), rest |-> Tail(q)]
    ELSE IF open THEN [tag |-> "Empty", value |-> None, rest |-> q]
    ELSE [tag |-> "Disconnected", value |-> None, rest |-> q]

\* the match with Err(Disconnected) handled as Err(Empty): sleep and retry
AfterRecvRetryOnClosed(res) ==
    IF res.tag = "Ok"
    THEN IF IsSome(res.value) THEN "process" ELSE "done"
    ELSE "sleep"

\* the match with Err(Empty) handled as Err(Disconnected): break
AfterRecvBreakOnEmpty(res) ==
    IF res.tag = "Ok"
    THEN IF IsSome(res.value) THEN "process" ELSE "done"
    ELSE "done"

\* the match on the result of try_recv: Ok(Some(item)) goes on with the item,
\* Ok(None) breaks, Err(Empty) sleeps and continues, Err(Disconnected) breaks
AfterRecv(res) ==
    IF res.tag = "Ok"
    THEN IF IsSome(res.value) THEN "process" ELSE "done"
    ELSE IF res.tag = "Empty" THEN "sleep"
    ELSE "done"

\* rx_guard declared in the loop body: alive until the end of the turn
GuardAfterBlockKept(w, res) ==
    IF res.tag = "Ok" /\ IsSome(res.value) THEN w ELSE 0

\* the guard kept across the back-off of an Empty result
GuardAfterBlockHeldInSleep(w, res) ==
    IF res.tag = "Empty" THEN w ELSE 0

\* the holder of the mutex after the block `{ let mut rx_guard = ...;
\* rx_guard.try_recv() }`: the guard is dropped whatever the result
GuardAfterBlock(w, res) == 0

\* rx_guard.try_recv(), the guard dropped at the end of the block, and the
\* match on the result up to the record, the sleep or the break
WorkerTryRecv(w) ==
    /\ wpc[w] = "locked"
    /\ lock = w
    /\ LET res == TryRecv(queue, txOpen)
       IN /\ lock' = GuardAfterBlock(w, res)
          /\ queue' = res.rest
          /\ wItem' = IF AfterRecv(res) = "process"
                      THEN [wItem EXCEPT ![w] = res.value]
                      ELSE wItem
          /\ wpc' = [wpc EXCEPT ![w] = AfterRecv(res)]
    /\ UNCHANGED <<pureVars, grepVars, prefix_lookup, sent, txOpen, wFound,
                   mergeIdx, merged, mainPc>>

\* process_snapshot_chunk with a cache of the categories of the keys seen,
\* kept in the index
WorkerProcessCaching(w) ==
    /\ wpc[w] = "process"
    /\ LET kv == Unwrap(wItem[w])
       IN /\ wFound' = [wFound EXCEPT ![w] = ProcessRecord(@, kv.key, kv.value, prefix_lookup)]
          /\ prefix_lookup' = OrInsert(prefix_lookup, kv.key, PrefixEntry(UnknownName, None))
    /\ wItem' = [wItem EXCEPT ![w] = None]
    /\ wpc' = [wpc EXCEPT ![w] = "poll"]
    /\ UNCHANGED <<pureVars, grepVars, sent, queue, txOpen, lock, mergeIdx, merged, mainPc>>

\* categorize_prefix, compress_size and the match on the category
WorkerProcess(w) ==
    /\ wpc[w] = "process"
    /\ LET kv == Unwrap(wItem[w])
       IN wFound' = [wFound EXCEPT ![w] = ProcessRecord(@, kv.key, kv.value, prefix_lookup)]
    /\ wItem' = [wItem EXCEPT ![w] = None]
    /\ wpc' = [wpc EXCEPT ![w] = "poll"]
    /\ UNCHANGED <<pureVars, grepVars, prefix_lookup, sent, queue, txOpen, lock,
                   mergeIdx, merged, mainPc>>

\* tokio::time::sleep(1 ms) is over
WorkerWake(w) ==
    /\ wpc[w] = "sleep"
    /\ wpc' = [wpc EXCEPT ![w] = "poll"]
    /\ UNCHANGED <<pureVars, grepVars, prefix_lookup, sent, queue, txOpen, lock, wItem, wFound,
                   mergeIdx, merged, mainPc>>

\* a handle taken as resolved while its task still runs
HandleResolvedAtOnce(pcw) == TRUE

\* handle.await goes on when the task of the handle has ended, by returning
\* its map or by aborting
HandleResolved(pcw) == pcw \in {"done", "aborted"}

\* handle.await with a failed join skipped: the fold goes on without the map
AwaitAndFoldSkipFailed(acc, pcw, partial) ==
    IF pcw = "aborted"
    THEN [ok |-> TRUE, merged |-> acc]
    ELSE [ok |-> TRUE, merged |-> MergePartial(acc, partial)]

\* `let partial = handle.await?;` and the fold of partial into the
\* accumulated map: a task that panicked or was cancelled gives a JoinError,
\* which `?` returns from merge_partial_results
AwaitAndFold(acc, pcw, partial) ==
    IF pcw = "aborted"
    THEN [ok |-> FALSE, merged |-> acc]
    ELSE [ok |-> TRUE, merged |-> MergePartial(acc, partial)]

\* merge_partial_results: handle.await of the next handle, whose task has
\* ended, and the fold of its map; Ok(found_by_pallet) after the last one,
\* Err at the first handle whose task did not return
MergeHandle ==
    /\ mainPc = "merge"
    /\ mergeIdx <= NumThreads
    /\ HandleResolved(wpc[mergeIdx])
    /\ LET res == AwaitAndFold(merged, wpc[mergeIdx], wFound[mergeIdx])
       IN /\ merged' = res.merged
          /\ mergeIdx' = IF res.ok THEN mergeIdx + 1 ELSE mergeIdx
          /\ mainPc' = IF ~res.ok THEN "failed"
                       ELSE IF mergeIdx = NumThreads THEN "done" ELSE "merge"
    /\ UNCHANGED <<pureVars, grepVars, prefix_lookup, sent, queue, txOpen, lock, wpc,
                   wItem, wFound>>

\* Info::run after merge_partial_results(handles).await? returned Ok:
\* print_results and write_results_to_json
PrintAndWrite ==
    /\ mainPc = "done"
    /\ mainPc' = "printed"
    /\ UNCHANGED <<pureVars, grepVars, prefix_lookup, sent, queue, txOpen, lock, wpc,
                   wItem, wFound, mergeIdx, merged>>

NextInfo ==
    \/ ProducerSend
    \/ ProducerClose
    \/ \E w \in Workers : WorkerLock(w)
    \/ \E w \in Workers : WorkerTryRecv(w)
    \/ \E w \in Workers : WorkerProcess(w)
    \/ \E w \in Workers : WorkerWake(w)
    \/ MergeHandle
    \/ PrintAndWrite

Spec == InitInfo /\ [][NextInfo]_vars

\* the map one worker alone builds from the records of a bag, taken in any order
RECURSIVE AggregateBag(_, _)
AggregateBag(acc, bag) ==
    IF BagToSet(bag) = {} THEN acc
    ELSE LET r == CHOOSE x \in BagToSet(bag) : TRUE
         IN AggregateBag(ProcessRecord(acc, r.key, r.value, prefix_lookup),
                         bag (-) SetToBag({r}))

\* C1: for a fixed multiset of records, merge_partial_results returns the same
\* MergedResult however the records were distributed over the workers: the
\* result of a run equals the map a single worker builds from all the records,
\* in every category, item and numeric field.
C1_PartitionIndependent ==
    mainPc = "done" => merged = AggregateBag(EmptyMap, sent)

\* an item present on both sides with every numeric field summed
C2_SumItem(a, b) ==
    [name |-> a.name,
     key_len |-> a.key_len + b.key_len,
     compressed_key_len |-> a.compressed_key_len + b.compressed_key_len,
     value_len |-> a.value_len + b.value_len,
     compressed_value_len |-> a.compressed_value_len + b.compressed_value_len,
     num_entries |-> a.num_entries + b.num_entries]

\* a category present on both sides with every numeric field summed, an item
\* of one side only kept as it is
C2_SumPallet(a, b) ==
    [name |-> a.name,
     size |-> a.size + b.size,
     compressed_size |-> a.compressed_size + b.compressed_size,
     items |-> [n \in DOMAIN a.items \cup DOMAIN b.items |->
                  IF n \notin DOMAIN b.items THEN a.items[n]
                  ELSE IF n \notin DOMAIN a.items THEN b.items[n]
                  ELSE C2_SumItem(a.items[n], b.items[n])]]

C2_Sum(acc, partial) ==
    [p \in DOMAIN acc \cup DOMAIN partial |->
        IF p \notin DOMAIN partial THEN acc[p]
        ELSE IF p \notin DOMAIN acc THEN partial[p]
        ELSE C2_SumPallet(acc[p], partial[p])]

\* C2: when merge_partial_results folds a partial map into the accumulated
\* map, a category present in both has its size and compressed_size summed, an
\* item present in both has its key_len, compressed_key_len, value_len,
\* compressed_value_len and num_entries summed, and a category or item of the
\* partial map alone is inserted unchanged.
C2_MergeSumsEveryField ==
    [][mergeIdx' = mergeIdx + 1 => merged' = C2_Sum(merged, wFound[mergeIdx])]_vars

\* the sum of the values of a function to the naturals
RECURSIVE SumFn(_)
SumFn(f) ==
    IF DOMAIN f = {} THEN 0
    ELSE LET x == CHOOSE y \in DOMAIN f : TRUE
         IN f[x] + SumFn([y \in DOMAIN f \ {x} |-> f[y]])

\* the (category, item) bucket a record is classified into
C3_Bucket(rec) ==
    LET cat == CategorizePrefix(rec.key, prefix_lookup)
    IN << IF cat.tag \in {"Item", "Pallet"} THEN cat.pallet ELSE UnknownName,
          IF cat.tag = "Item" THEN cat.item ELSE UnknownName >>

\* the distinct records streamed that fall into a bucket
C3_RecordsOf(p, i) == {r \in BagToSet(sent) : C3_Bucket(r) = <<p, i>>}

\* C3: after a complete run, every (category, item) bucket of the MergedResult
\* has num_entries equal to the number of streamed records classified into
\* it, key_len equal to the sum of their key lengths and value_len equal to
\* the sum of their value lengths; every streamed record has its bucket.
C3_BucketSums ==
    mainPc = "done" =>
        /\ \A r \in BagToSet(sent) :
              /\ C3_Bucket(r)[1] \in DOMAIN merged
              /\ C3_Bucket(r)[2] \in DOMAIN merged[C3_Bucket(r)[1]].items
        /\ \A p \in DOMAIN merged : \A i \in DOMAIN merged[p].items :
              LET recs == C3_RecordsOf(p, i)
                  stat == merged[p].items[i]
              IN /\ stat.num_entries = SumFn([r \in recs |-> CopiesIn(r, sent)])
                 /\ stat.key_len = SumFn([r \in recs |-> CopiesIn(r, sent) * Len(r.key)])
                 /\ stat.value_len = SumFn([r \in recs |-> CopiesIn(r, sent) * Len(r.value)])

\* the records (10,20), (5,5), (10,20) have been aggregated by two workers
\* into one item with num_entries 3, key_len 25 and value_len 45
C3_Witness ==
    /\ mainPc = "done"
    /\ sent = SetToBag({KV(Junk(5), Zeros(5))}) (+) SetToBag({KV(Junk(10), Zeros(20))})
                (+) SetToBag({KV(Junk(10), Zeros(20))})
    /\ \A w \in Workers : wFound[w] # EmptyMap
    /\ merged[UnknownName].items[UnknownName].num_entries = 3
    /\ merged[UnknownName].items[UnknownName].key_len = 25
    /\ merged[UnknownName].items[UnknownName].value_len = 45

----------------------------------------------------------------------------
(* Claims on search_subjects: the ignore filter and the counters *)

\* the record's category carries a name (Item or Pallet variant) and that
\* name is the ignore filter, compared as strings
C11_InIgnoredCategory(rec) ==
    LET info == CategorizePrefix(rec.key, prefix_lookup)
    IN /\ info.tag \in {"Item", "Pallet"}
       /\ ignore_pallet = Some(info.pallet)

\* the lines printed for the i-th record received
C11_ReportsOf(i) == {j \in 1..Len(reports) : reports[j].at = i}

\* C11: a matching record whose category name (of an Item or of a Pallet
\* result) equals the ignore filter, case-sensitively, has no KEY and no VALUE
\* report; a matching record whose category name differs, be it by letter
\* case only, is reported.
C11_IgnoredNotReported ==
    \A i \in 1..Len(grepRx) :
        C10_HasMatch(grepRx[i]) =>
            (C11_InIgnoredCategory(grepRx[i]) <=> C11_ReportsOf(i) = {})

\* C12: the scanned counter counts every record received, matched or not,
\* ignored or not: at every point it is the number of records received so
\* far, and at the end of the stream the number delivered before it.
C12_TotalCountsEveryRecord == total = Len(grepRx)

\* the stream has ended after a record without a match and a record that
\* matched and was ignored: two scanned, one matched, nothing printed
C12_Witness ==
    /\ GrepDone
    /\ ignore_pallet = Some("System")
    /\ subjects = <<SubjectAddress(PatB)>>
    /\ grepRx = << KV(<<9, 9>>, <<9>>),
                   KV(Twox128("System") \o Twox128("Account") \o <<1, 2, 3>>, <<4, 5>>) >>
    /\ total = 2
    /\ count = 1
    /\ reports = <<>>

\* C13: a record in which no subject's pattern occurs, neither in the key nor
\* in the value, is skipped: the turn of the loop that receives it prints no
\* report and leaves the match counter unchanged.
C13_NoMatchSkipped ==
    [][(/\ Len(grepRx') = Len(grepRx) + 1
        /\ ~C10_HasMatch(grepRx'[Len(grepRx')]))
       => (reports' = reports /\ count' = count)]_vars

\* a record without a match has been received after a reported one: the
\* reports and the match counter are those of the first record alone
C13_Witness ==
    /\ Len(grepRx) = 2
    /\ C10_HasMatch(grepRx[1])
    /\ ~C10_HasMatch(grepRx[2])
    /\ total = 2
    /\ count = 1
    /\ reports # <<>>
    /\ \A j \in 1..Len(reports) : reports[j].at = 1

----------------------------------------------------------------------------
(* Specification of Info::run with worker tasks that may abort *)

\* a snapshot of equal records: what the workers count, not what they classify
SmallSnapshot == {KV(Junk(5), Zeros(5))}

SmallProducerSend == ProducerSendFrom(SmallSnapshot)

\* the task of worker w ends without returning its map: a panic while it
\* classifies and accumulates a record, or cancellation at the await of the
\* sleep. Neither happens inside the block that holds the mutex guard.
WorkerAbort(w) ==
    /\ wpc[w] \in {"process", "sleep"}
    /\ wpc' = [wpc EXCEPT ![w] = "aborted"]
    /\ UNCHANGED <<pureVars, grepVars, prefix_lookup, sent, queue, txOpen, lock, wItem, wFound,
                   mergeIdx, merged, mainPc>>

NextAbort ==
    \/ SmallProducerSend
    \/ ProducerClose
    \/ \E w \in Workers : WorkerLock(w)
    \/ \E w \in Workers : WorkerTryRecv(w)
    \/ \E w \in Workers : WorkerProcess(w)
    \/ \E w \in Workers : WorkerWake(w)
    \/ \E w \in Workers : WorkerAbort(w)
    \/ MergeHandle
    \/ PrintAndWrite

SpecAbort == InitInfo /\ [][NextAbort]_vars

\* C14: if a worker task aborts, merge_partial_results does not go past its
\* handle and the run does not return, print or write a MergedResult: the
\* merge is still awaiting an earlier handle or has returned the error.
C14_AbortFailsRun ==
    \A w \in Workers :
        wpc[w] = "aborted" => (mergeIdx <= w /\ mainPc \in {"merge", "failed"})

\* the first worker returned a map with entries, which the merge folded, the
\* second one aborted, and the run failed
C14_Witness ==
    /\ wpc[1] = "done"
    /\ wFound[1] # EmptyMap
    /\ wpc[2] = "aborted"
    /\ merged # EmptyMap
    /\ mainPc = "failed"

----------------------------------------------------------------------------
(* Claims on the queue of Info::run and on its consumer lock *)

\* the sum of num_entries over all the buckets of a map
C19_Entries(map) ==
    SumFn([p \in DOMAIN map |->
             SumFn([i \in DOMAIN map[p].items |-> map[p].items[i].num_entries])])

\* the workers that hold a dequeued record not yet accumulated
C19_Processing == {w \in Workers : wpc[w] = "process"}

\* C19: every record enqueued is dequeued by exactly one worker and
\* accumulated exactly once: at every point the records sent are those still
\* queued, those held by a worker and those counted in the workers' maps, and
\* when the run completes the queue is empty, no worker holds a record and
\* the num_entries of the MergedResult sum to the number of records sent.
C19_ExactlyOnce ==
    /\ BagCardinality(sent) =
          Len(queue) + Cardinality(C19_Processing)
          + SumFn([w \in Workers |-> C19_Entries(wFound[w])])
    /\ mainPc \in {"done", "printed"} =>
          /\ queue = <<>>
          /\ C19_Processing = {}
          /\ C19_Entries(merged) = BagCardinality(sent)

\* a complete run of three records, some accumulated by each worker
C19_Witness ==
    /\ mainPc = "printed"
    /\ BagCardinality(sent) = MaxRecords
    /\ \A w \in Workers : C19_Entries(wFound[w]) > 0
    /\ C19_Entries(merged) = MaxRecords

\* C20: the consumer lock is held by at most one worker at a time and only
\* across one try_recv: its holder is the one worker between lock() and the
\* end of the block, and no worker holds it while it classifies and
\* accumulates, sleeps, or after it terminated.
C20_LockOnlyAcrossTryRecv ==
    /\ lock \in {0} \cup Workers
    /\ \A w \in Workers : (lock = w) <=> (wpc[w] = "locked")
    /\ Cardinality({w \in Workers : wpc[w] = "locked"}) <= 1

\* worker 2 holds the lock while worker 1 accumulates a record
C20_Witness ==
    /\ lock = 2
    /\ wpc[2] = "locked"
    /\ wpc[1] = "process"

----------------------------------------------------------------------------
(* Info::run under fair scheduling of the worker tasks and of the main task *)

\* the tokio runtime keeps polling every spawned task that can take a step,
\* the sleep of a worker ends, and the main task goes on once the handle it
\* awaits has resolved; nothing is assumed of the producer
Fairness ==
    /\ \A w \in Workers :
          /\ WF_vars(WorkerLock(w))
          /\ WF_vars(WorkerTryRecv(w))
          /\ WF_vars(WorkerProcess(w))
          /\ WF_vars(WorkerWake(w))
    /\ WF_vars(MergeHandle)
    /\ WF_vars(PrintAndWrite)

\* Info::run on a snapshot of equal records
NextSmall ==
    \/ SmallProducerSend
    \/ ProducerClose
    \/ \E w \in Workers : WorkerLock(w)
    \/ \E w \in Workers : WorkerTryRecv(w)
    \/ \E w \in Workers : WorkerProcess(w)
    \/ \E w \in Workers : WorkerWake(w)
    \/ MergeHandle
    \/ PrintAndWrite

FairSpec == InitInfo /\ [][NextSmall]_vars /\ Fairness

\* C15: under fair scheduling, once the producer has closed the queue every
\* worker eventually terminates and the run completes with its MergedResult
\* printed and written; the run never fails, so the closure is not reported
\* as an error.
C15_ClosedLeadsToResult ==
    /\ [](mainPc # "failed")
    /\ (~txOpen) ~> ((\A w \in Workers : wpc[w] = "done") /\ mainPc = "printed")

\* the queue was closed with all its records sent, the workers broke out of
\* their loops on Err(Disconnected) and the result was printed
C15_Witness ==
    /\ ~txOpen
    /\ BagCardinality(sent) = MaxRecords
    /\ \A w \in Workers : wpc[w] = "done"
    /\ mainPc = "printed"
    /\ C19_Entries(merged) = MaxRecords

----------------------------------------------------------------------------
(* Info::run fed by a record source that ends its stream with the sentinel *)

\* the producer has sent the None element and still holds the sender: the
\* sentinel is queued, or a worker broke out of its loop on Ok(None)
SentinelSent ==
    /\ txOpen
    /\ \/ \E i \in 1..Len(queue) : queue[i] = None
       \/ \E w \in Workers : wpc[w] = "done"

\* records are sent before the sentinel only
SentinelProducerSend ==
    /\ ~SentinelSent
    /\ SmallProducerSend

\* tx.send(None).await: the explicit end-of-stream element of the channel of
\* Option<(Vec<u8>, Vec<u8>)>, sent once
ProducerSentinel ==
    /\ txOpen
    /\ ~SentinelSent
    /\ Len(queue) < ChannelCapacity
    /\ queue' = Append(queue, None)
    /\ UNCHANGED <<pureVars, grepVars, prefix_lookup, sent, txOpen, lock, wpc, wItem, wFound,
                   mergeIdx, merged, mainPc>>

NextSentinel ==
    \/ SentinelProducerSend
    \/ ProducerSentinel
    \/ ProducerClose
    \/ \E w \in Workers : WorkerLock(w)
    \/ \E w \in Workers : WorkerTryRecv(w)
    \/ \E w \in Workers : WorkerProcess(w)
    \/ \E w \in Workers : WorkerWake(w)
    \/ MergeHandle
    \/ PrintAndWrite

SpecSentinel == InitInfo /\ [][NextSentinel]_vars /\ Fairness

\* C16: under fair scheduling, in a run whose producer never closes the
\* channel, once the producer has sent the sentinel every worker of the pool
\* eventually terminates and the run completes.
C16_SentinelTerminates ==
    ([]txOpen) =>
        (SentinelSent ~> ((\A w \in Workers : wpc[w] = "done") /\ mainPc = "printed"))

----------------------------------------------------------------------------
(* Specification of Grep::run for the address search: the subject is parsed,
   then search_subjects runs *)

\* the check byte that closes an address string: a stand-in for the two
\* bytes of blake2b checksum of SS58
RECURSIVE Ss58Checksum(_)
Ss58Checksum(bytes) ==
    IF bytes = <<>> THEN 83 ELSE (Head(bytes) + 3 * Ss58Checksum(Tail(bytes))) % 256

\* the address string of an account: network prefix, account bytes, check byte
Ss58Encode(account) == <<0>> \o account \o <<Ss58Checksum(<<0>> \o account)>>

\* AccountId32::from_str: the string is decoded and its check byte verified
Ss58Decode(str) ==
    IF Len(str) < 2 THEN [ok |-> FALSE, value |-> <<>>]
    ELSE LET body == SubSeq(str, 1, Len(str) - 1)
         IN IF str[Len(str)] = Ss58Checksum(body)
            THEN [ok |-> TRUE, value |-> Tail(body)]
            ELSE [ok |-> FALSE, value |-> <<>>]

\* subjects() that searches for the raw input when it cannot be decoded
SubjectsOfAddressLenient(ss58) ==
    LET address == Ss58Decode(ss58)
    IN IF address.ok
       THEN [ok |-> TRUE, value |-> <<SubjectAddress(address.value)>>]
       ELSE [ok |-> TRUE, value |-> <<SubjectAddress(ss58)>>]

\* GrepSearchAddress::subjects: Err("Invalid SS58") or the one subject
SubjectsOfAddress(ss58) ==
    LET address == Ss58Decode(ss58)
    IN IF address.ok
       THEN [ok |-> TRUE, value |-> <<SubjectAddress(address.value)>>]
       ELSE [ok |-> FALSE, value |-> <<>>]

\* address strings given on the command line: two well-formed ones, one with
\* a wrong check byte, one cut short, the empty one
Ss58Inputs ==
    { Ss58Encode(PatA),
      Ss58Encode(PatB),
      <<0>> \o PatB \o <<(Ss58Checksum(<<0>> \o PatB) + 1) % 256>>,
      SubSeq(Ss58Encode(PatA), 1, 3),
      <<>> }

\* Grep::run has loaded the snapshot and built the index; the subjects are
\* not constructed yet
InitGrepRun ==
    /\ args \in {[fn |-> "grep_address", ss58 |-> str] : str \in Ss58Inputs}
    /\ ret = None
    /\ returned = FALSE
    /\ InfoIdle
    /\ prefix_lookup = BuildPrefixLookup(Pallets)
    /\ subjects = <<>>
    /\ ignore_pallet \in TestIgnores
    /\ grepRx = <<>>
    /\ count = 0
    /\ total = 0
    /\ reports = <<>>
    /\ last = None
    /\ grepPc = "run"

\* let subjects = self.search.subjects()?; then search_subjects is entered
GrepRunSubjects ==
    /\ grepPc = "run"
    /\ LET res == SubjectsOfAddress(args.ss58)
       IN /\ subjects' = res.value
          /\ grepPc' = IF res.ok THEN "loop" ELSE "invalid_ss58"
    /\ UNCHANGED <<pureVars, infoVars, prefix_lookup, ignore_pallet, grepRx, count, total,
                   reports, last>>

NextGrepRun == GrepRunSubjects \/ GrepRecord \/ GrepEnd

SpecGrepRun == InitGrepRun /\ [][NextGrepRun]_vars

\* C17: an address string that is not valid SS58 is rejected when the
\* subjects are constructed: Grep::run returns the input-validation error,
\* search_subjects is never entered, no record is scanned, and no report and
\* no counter line is printed.
C17_InvalidSs58Rejected ==
    ~Ss58Decode(args.ss58).ok =>
        /\ grepPc \in {"run", "invalid_ss58"}
        /\ subjects = <<>>
        /\ grepRx = <<>>
        /\ total = 0
        /\ count = 0
        /\ reports = <<>>

\* Grep::run has returned Err("Invalid SS58") for the string whose check byte
\* is wrong
C17_Witness ==
    /\ grepPc = "invalid_ss58"
    /\ Len(args.ss58) = Len(PatB) + 2
    /\ SubSeq(args.ss58, 2, Len(PatB) + 1) = PatB
    /\ ~Ss58Decode(args.ss58).ok

----------------------------------------------------------------------------
(* Specification of ScaleCompressed<Vec<u8>>: encode, then decode *)

Ok(x) == [ok |-> TRUE, value |-> x, error |-> ""]
Err(e) == [ok |-> FALSE, value |-> <<>>, error |-> e]

\* Compact<u32>::encode of a length: one byte below 64, two bytes below 2^14
CompactLen(n) ==
    IF n < 64 THEN <<4 * n>>
    ELSE <<(4 * n + 1) % 256, (4 * n + 1) \div 256>>

\* Vec<u8>::encode: the compact length, then the bytes
EncodeVec(v) == CompactLen(Len(v)) \o v

\* Vec<u8>::decode: reads the compact length and that many bytes from the
\* input, and leaves what follows
DecodeVec(input) ==
    IF input = <<>> THEN Err("Not enough data")
    ELSE LET mode == input[1] % 4
         IN IF mode = 0
            THEN LET n == input[1] \div 4
                 IN IF Len(input) - 1 < n THEN Err("Not enough data")
                    ELSE Ok(SubSeq(input, 2, n + 1))
            ELSE IF mode = 1
            THEN IF Len(input) < 2 THEN Err("Not enough data")
                 ELSE LET n == (input[1] + 256 * input[2]) \div 4
                      IN IF n < 64 THEN Err("Out of range")
                         ELSE IF Len(input) - 2 < n THEN Err("Not enough data")
                         ELSE Ok(SubSeq(input, 3, n + 2))
            ELSE Err("Out of range")

\* the length of the run of equal bytes at the head of a non-empty buffer
RECURSIVE RunLen(_)
RunLen(buf) ==
    IF Len(buf) >= 2 /\ buf[2] = buf[1] THEN 1 + RunLen(Tail(buf)) ELSE 1

\* miniz_oxide::deflate::compress_to_vec: a lossless coding of the buffer,
\* here its runs of equal bytes as (length, byte) pairs
RECURSIVE CompressToVec(_)
CompressToVec(buf) ==
    IF buf = <<>> THEN <<>>
    ELSE LET n == RunLen(buf)
         IN <<n, buf[1]>> \o CompressToVec(SubSeq(buf, n + 1, Len(buf)))

\* an inflater that grows its output without a limit
RECURSIVE DecompressToVecNoLimit(_, _)
DecompressToVecNoLimit(stream, room) ==
    IF stream = <<>> THEN Ok(<<>>)
    ELSE IF Len(stream) < 2 \/ stream[1] = 0 THEN Err("Failed")
    ELSE LET rest == DecompressToVecNoLimit(SubSeq(stream, 3, Len(stream)), room)
         IN IF rest.ok
            THEN Ok([i \in 1..stream[1] |-> stream[2]] \o rest.value)
            ELSE rest

\* miniz_oxide::inflate::decompress_to_vec_with_limit: the buffer coded by the
\* stream, or an error when the stream is malformed or codes more than
\* `room` bytes
RECURSIVE DecompressToVecWithLimit(_, _)
DecompressToVecWithLimit(stream, room) ==
    IF stream = <<>> THEN Ok(<<>>)
    ELSE IF Len(stream) < 2 \/ stream[1] = 0 THEN Err("Failed")
    ELSE IF stream[1] > room THEN Err("HasMoreOutput")
    ELSE LET rest == DecompressToVecWithLimit(SubSeq(stream, 3, Len(stream)),
                                              room - stream[1])
         IN IF rest.ok
            THEN Ok([i \in 1..stream[1] |-> stream[2]] \o rest.value)
            ELSE rest

\* encode_to without the second encode: the deflate stream alone
EncodeCompressedNoPrefix(x) == CompressToVec(EncodeVec(x))

\* Encode for ScaleCompressed<Vec<u8>>: the encoding of the inner value is
\* compressed, and the compressed bytes encoded as a Vec<u8>
EncodeCompressed(x) == EncodeVec(CompressToVec(EncodeVec(x)))

\* Decode for ScaleCompressed<Vec<u8>>
DecodeCompressed(input) ==
    LET compressed == DecodeVec(input)
    IN IF ~compressed.ok THEN compressed
       ELSE LET decompressed == DecompressToVecWithLimit(compressed.value, DecompressLimit)
            IN IF ~decompressed.ok THEN Err("Data corrupted")
               ELSE DecodeVec(decompressed.value)

ScaleBytes == {0, 1, 2}

InitScale ==
    /\ \E x \in SeqsUpTo(ScaleBytes, MaxPayload) :
          args = [fn |-> "scale_compressed", value |-> x]
    /\ ret = [stage |-> "new"]
    /\ returned = FALSE
    /\ prefix_lookup = EmptyMap
    /\ GrepIdle
    /\ InfoIdle

\* let encoded = ScaleCompressed::new(x).encode()
CallEncode ==
    /\ ret.stage = "new"
    /\ ret' = [stage |-> "encoded", bytes |-> EncodeCompressed(args.value)]
    /\ UNCHANGED <<args, returned, prefix_lookup, grepVars, infoVars>>

\* ScaleCompressed::<Vec<u8>>::decode(&mut &encoded[..])
CallDecode ==
    /\ ret.stage = "encoded"
    /\ ret' = [stage |-> "decoded", result |-> DecodeCompressed(ret.bytes)]
    /\ returned' = TRUE
    /\ UNCHANGED <<args, prefix_lookup, grepVars, infoVars>>

NextScale == CallEncode \/ CallDecode

SpecScale == InitScale /\ [][NextScale]_vars

\* C18 as stated: for every value x, decoding the bytes of
\* ScaleCompressed(x).encode() succeeds and yields x.
C18_RoundTrip ==
    ret.stage = "decoded" => ret.result = Ok(args.value)

\* C18: for every value x whose SCALE encoding is not longer than the limit
\* of the inflater, decoding the bytes of ScaleCompressed(x).encode()
\* succeeds and yields x.
C18_RoundTripWithinLimit ==
    (ret.stage = "decoded" /\ Len(EncodeVec(args.value)) <= DecompressLimit)
        => ret.result = Ok(args.value)

\* a vector with a run of equal bytes went through encode and decode
C18_Witness ==
    /\ ret.stage = "decoded"
    /\ args.value = <<1, 1, 2>>
    /\ ret.result.ok
    /\ ret.result.value = <<1, 1, 2>>

----------------------------------------------------------------------------
(* Claims on the worker loop, the producer and the merge of Info::run *)

\* the result a poll of the queue gives in the current state
C21_Poll == TryRecv(queue, txOpen)

\* C21: a worker polls the queue between lock() and the end of the block;
\* from there an item takes it to classify and accumulate and back to the
\* poll, an Empty result to the back-off and back to the poll, the sentinel
\* or the closed and empty queue to Terminated. It terminates only after
\* such a poll, never after an Empty one, and an Empty poll changes no
\* statistic.
C21_WorkerStateMachine ==
    [][\A w \in Workers :
          wpc'[w] # wpc[w] =>
             /\ <<wpc[w], wpc'[w]>> \in
                   { <<"poll", "locked">>, <<"locked", "process">>, <<"locked", "sleep">>,
                     <<"locked", "done">>, <<"process", "poll">>, <<"sleep", "poll">> }
             /\ wpc'[w] = "process" => (C21_Poll.tag = "Ok" /\ IsSome(C21_Poll.value))
             /\ wpc'[w] = "done" =>
                   \/ C21_Poll.tag = "Ok" /\ C21_Poll.value = None
                   \/ C21_Poll.tag = "Disconnected" /\ queue = <<>> /\ ~txOpen
             /\ wpc'[w] = "sleep" =>
                   /\ C21_Poll.tag = "Empty"
                   /\ wFound' = wFound
                   /\ merged' = merged
                   /\ queue' = queue]_vars

\* one worker terminated on the sentinel of an open queue while the other,
\* which has accumulated a record, backs off after an Empty poll
C21_Witness ==
    /\ txOpen
    /\ wpc[1] = "done"
    /\ wpc[2] = "sleep"
    /\ wFound[2] # EmptyMap
    /\ queue = <<>>

\* the producer is inside tx.send(..).await on a full channel
C22_ProducerWaits == txOpen /\ Len(queue) = ChannelCapacity

\* C22: the producer is never starved by the workers: a worker that backs
\* off does not hold the lock, and under fair scheduling of the workers a
\* full queue on which the producer waits eventually has a free slot, so
\* the pending send completes.
C22_ProducerNotStarved ==
    /\ [](\A w \in Workers : wpc[w] = "sleep" => lock # w)
    /\ C22_ProducerWaits ~> (Len(queue) < ChannelCapacity)

\* the producer waits on a full queue with records left to send while every
\* worker is in its back-off
C22_Witness ==
    /\ C22_ProducerWaits
    /\ BagCardinality(sent) < MaxRecords
    /\ \A w \in Workers : wpc[w] = "sleep"
    /\ lock = 0

\* C23 as stated: the merge starts only after all workers have terminated:
\* in no state has a partial map been folded while a worker is still running.
C23_MergeAfterAllTerminated ==
    mergeIdx > 1 => \A w \in Workers : wpc[w] = "done"

\* C23: merge_partial_results awaits the handles in the order the workers
\* were spawned and folds the map of a worker once that worker has
\* terminated, possibly while later workers still run; the MergedResult is
\* returned only after all workers have terminated.
C23_MergeAfterEachTerminated ==
    /\ \A w \in Workers : w < mergeIdx => wpc[w] = "done"
    /\ mainPc \in {"done", "printed"} => \A w \in Workers : wpc[w] = "done"

\* the map of the first worker has been folded while the second worker
\* still accumulates a record
C23_Witness ==
    /\ mergeIdx = 2
    /\ merged # EmptyMap
    /\ wpc[1] = "done"
    /\ wpc[2] = "process"

\* C24: the queue is bounded: it never holds more records than the capacity
\* of the channel; a record is enqueued only into a free slot, behind the
\* records already queued, which stay as they are; and while the queue is
\* full the producer waits: no record is taken from the snapshot, dropped or
\* overwritten.
C24_QueueBounded ==
    /\ [](Len(queue) <= ChannelCapacity)
    /\ [][Len(queue') > Len(queue) =>
             /\ Len(queue) < ChannelCapacity
             /\ Len(queue') = Len(queue) + 1
             /\ SubSeq(queue', 1, Len(queue)) = queue]_vars
    /\ [][Len(queue) = ChannelCapacity =>
             /\ sent' = sent
             /\ queue' \in {queue, Tail(queue)}]_vars

\* the queue is full, the producer has records left and waits, and no worker
\* has dequeued anything yet
C24_Witness ==
    /\ txOpen
    /\ Len(queue) = ChannelCapacity
    /\ BagCardinality(sent) = ChannelCapacity
    /\ BagCardinality(sent) < MaxRecords
    /\ \A w \in Workers : wFound[w] = EmptyMap /\ wItem[w] = None

\* the field f of a record that is 0 when the entry does not exist yet
C25_ItemField(map, c, i, f) ==
    IF c \in DOMAIN map /\ i \in DOMAIN map[c].items THEN map[c].items[i][f] ELSE 0

C25_PalletField(map, c, f) == IF c \in DOMAIN map THEN map[c][f] ELSE 0

C25_ItemsOf(map, c) == IF c \in DOMAIN map THEN DOMAIN map[c].items ELSE {}

\* C25: the step in which a worker accumulates the record it dequeued adds
\* it to exactly one (category, item) bucket of the worker's own map:
\* (c, i) for Item(c, i), (c, unknown) for Pallet(c), (unknown, unknown) for
\* Unknown. The bucket gains one entry, the lengths of the key and of the
\* value and their compressed sizes; its category grows by the record's raw
\* and compressed size; no other bucket, category or worker's map changes.
C25_OneBucketPerRecord ==
    [][\A w \in Workers :
          (wpc[w] = "process" /\ wpc'[w] # "process") =>
             LET rec == Unwrap(wItem[w])
                 cat == CategorizePrefix(rec.key, prefix_lookup)
                 c == IF cat.tag \in {"Item", "Pallet"} THEN cat.pallet ELSE UnknownName
                 i == IF cat.tag = "Item" THEN cat.item ELSE UnknownName
                 old == wFound[w]
                 new == wFound'[w]
                 ck == CompressSize(rec.key)
                 cv == CompressSize(rec.value)
             IN /\ DOMAIN new = DOMAIN old \cup {c}
                /\ DOMAIN new[c].items = C25_ItemsOf(old, c) \cup {i}
                /\ new[c].items[i].num_entries = C25_ItemField(old, c, i, "num_entries") + 1
                /\ new[c].items[i].key_len = C25_ItemField(old, c, i, "key_len") + Len(rec.key)
                /\ new[c].items[i].value_len
                      = C25_ItemField(old, c, i, "value_len") + Len(rec.value)
                /\ new[c].items[i].compressed_key_len
                      = C25_ItemField(old, c, i, "compressed_key_len") + ck
                /\ new[c].items[i].compressed_value_len
                      = C25_ItemField(old, c, i, "compressed_value_len") + cv
                /\ new[c].size = C25_PalletField(old, c, "size") + Len(rec.key) + Len(rec.value)
                /\ new[c].compressed_size = C25_PalletField(old, c, "compressed_size") + ck + cv
                /\ \A j \in C25_ItemsOf(old, c) \ {i} : new[c].items[j] = old[c].items[j]
                /\ \A p \in DOMAIN old \ {c} : new[p] = old[p]
                /\ \A v \in Workers \ {w} : wFound'[v] = wFound[v]]_vars

\* one worker has accumulated a record of each kind: into an item of System,
\* into the unknown item of Balances and into the unknown category
C25_Witness ==
    /\ DOMAIN wFound[1] = {"System", "Balances", UnknownName}
    /\ wFound[1]["System"].items["Account"].num_entries = 1
    /\ wFound[1]["Balances"].items[UnknownName].num_entries = 1
    /\ wFound[1][UnknownName].items[UnknownName].num_entries = 1
    /\ wpc[1] = "poll"

----------------------------------------------------------------------------
(* Specification of build_prefix_lookup over bounded metadata *)

\* names of pallets in ascending order; the digests of "Aura" and "Babe" are
\* equal in this model of twox_128, those of the other names all differ
BuildPalletNames == <<"Aura", "Babe", "Balances", "System">>

\* the storage of a pallet: none, no entry, entries of distinct digests,
\* entries of equal digests
BuildStorages ==
    { None, Some(<<>>), Some(<<"Account", "Number">>), Some(<<"Key", "Slot">>) }

\* the pallets chosen by `present`, in the order of their names
RECURSIVE PalletsFrom(_, _, _)
PalletsFrom(present, storage, i) ==
    IF i > Len(BuildPalletNames) THEN <<>>
    ELSE (IF i \in present THEN <<PalletMeta(BuildPalletNames[i], storage[i])>> ELSE <<>>)
         \o PalletsFrom(present, storage, i + 1)

BuildInputs ==
    { PalletsFrom(present, storage, 1) :
        present \in SUBSET (1..Len(BuildPalletNames)),
        storage \in [1..Len(BuildPalletNames) -> BuildStorages] }

InitBuild ==
    /\ args \in {[fn |-> "build_prefix_lookup", pallets |-> ps] : ps \in BuildInputs}
    /\ ret = None
    /\ returned = FALSE
    /\ prefix_lookup = EmptyMap
    /\ GrepIdle
    /\ InfoIdle

\* let prefix_lookup = build_prefix_lookup(&pallets)
CallBuild ==
    /\ ~returned
    /\ prefix_lookup' = BuildPrefixLookup(args.pallets)
    /\ returned' = TRUE
    /\ UNCHANGED <<args, ret, grepVars, infoVars>>

NextBuild == CallBuild

SpecBuild == InitBuild /\ [][NextBuild]_vars

\* the insertions build_prefix_lookup makes for one pallet, in order
C27_InsertionsOf(pallet) ==
    <<[key |-> Twox128(pallet.name), val |-> PrefixEntry(pallet.name, None)]>>
    \o (IF IsSome(pallet.storage)
        THEN [j \in 1..Len(Unwrap(pallet.storage)) |->
                [key |-> Twox128(pallet.name) \o Twox128(Unwrap(pallet.storage)[j]),
                 val |-> PrefixEntry(pallet.name, Some(Unwrap(pallet.storage)[j]))]]
        ELSE <<>>)

\* the insertions for a list of pallets, in order
RECURSIVE C27_Insertions(_)
C27_Insertions(pallets) ==
    IF pallets = <<>> THEN <<>>
    ELSE C27_InsertionsOf(Head(pallets)) \o C27_Insertions(Tail(pallets))

\* no two names of the metadata give the same prefix
C26_NoCollision(pallets) ==
    LET ins == C27_Insertions(pallets)
    IN \A a, b \in 1..Len(ins) : ins[a].key = ins[b].key => a = b

\* C26: built from pallets without digest collisions, the index holds for
\* each pallet the entry (name, no item) under the 16-byte digest of its
\* name, for each storage entry the entry (pallet name, item) under the 32
\* bytes of the pallet digest followed by the item digest, and nothing else;
\* every 16-byte key has no item and every 32-byte key has one.
C26_IndexContents ==
    (returned /\ C26_NoCollision(args.pallets)) =>
        LET ps == args.pallets
            palletKeys == {Twox128(ps[k].name) : k \in 1..Len(ps)}
            itemKeys == UNION { {Twox128(ps[k].name) \o Twox128(Unwrap(ps[k].storage)[j]) :
                                   j \in 1..Len(Unwrap(ps[k].storage))} :
                                k \in {n \in 1..Len(ps) : IsSome(ps[n].storage)} }
        IN /\ DOMAIN prefix_lookup = palletKeys \cup itemKeys
           /\ \A k \in 1..Len(ps) :
                 /\ prefix_lookup[Twox128(ps[k].name)] = PrefixEntry(ps[k].name, None)
                 /\ IsSome(ps[k].storage) =>
                       \A j \in 1..Len(Unwrap(ps[k].storage)) :
                          prefix_lookup[Twox128(ps[k].name) \o Twox128(Unwrap(ps[k].storage)[j])]
                             = PrefixEntry(ps[k].name, Some(Unwrap(ps[k].storage)[j]))
           /\ \A key \in DOMAIN prefix_lookup :
                 \/ Len(key) = PalletPrefixLen /\ prefix_lookup[key].storage = None
                 \/ Len(key) = ItemPrefixLen /\ IsSome(prefix_lookup[key].storage)

\* the index of Balances without storage and System with two entries
C26_Witness ==
    /\ returned
    /\ args.pallets = << PalletMeta("Balances", None),
                         PalletMeta("System", Some(<<"Account", "Number">>)) >>
    /\ Cardinality(DOMAIN prefix_lookup) = 4
    /\ prefix_lookup[Twox128("System") \o Twox128("Number")] = PrefixEntry("System", Some("Number"))

\* C27: when two names give the same prefix, the later insertion replaces
\* the earlier one: the index the build returns holds one entry per prefix,
\* the one inserted last, collision or not.
C27_LastInsertionWins ==
    LET ins == C27_Insertions(args.pallets)
    IN returned =>
          /\ DOMAIN prefix_lookup = {ins[k].key : k \in 1..Len(ins)}
          /\ \A k \in 1..Len(ins) :
                (\A m \in (k + 1)..Len(ins) : ins[m].key # ins[k].key)
                   => prefix_lookup[ins[k].key] = ins[k].val

\* Aura and Babe share their digest, and so do the entries Key and Slot of
\* Babe: the index holds Babe under the pallet prefix and Slot under the
\* item prefix
C27_Witness ==
    /\ returned
    /\ args.pallets = << PalletMeta("Aura", None),
                         PalletMeta("Babe", Some(<<"Key", "Slot">>)) >>
    /\ Twox128("Aura") = Twox128("Babe")
    /\ Cardinality(DOMAIN prefix_lookup) = 2
    /\ prefix_lookup[Twox128("Aura")] = PrefixEntry("Babe", None)
    /\ prefix_lookup[Twox128("Babe") \o Twox128("Key")] = PrefixEntry("Babe", Some("Slot"))

----------------------------------------------------------------------------
(* Claims on the order of the reports, the growth of the statistics and the
   immutability of the index *)

\* C28: search_subjects prints its reports in the arrival order of the
\* records: every report of a record received earlier comes before every
\* report of a record received later, and of the two reports of one record
\* the KEY report comes before the VALUE report.
C28_ArrivalOrder ==
    \A j, k \in 1..Len(reports) :
        j < k =>
            /\ reports[j].at <= reports[k].at
            /\ reports[j].at = reports[k].at =>
                  (reports[j].field = "KEY" /\ reports[k].field = "VALUE")

\* the first record matched in key and value, the second one in its value
C28_Witness ==
    /\ Len(reports) = 3
    /\ reports[1].at = 1 /\ reports[1].field = "KEY"
    /\ reports[2].at = 1 /\ reports[2].field = "VALUE"
    /\ reports[3].at = 2 /\ reports[3].field = "VALUE"

\* every category and item of the map `old` is in the map `new`, with no
\* field lowered
C29_Grows(old, new) ==
    \A p \in DOMAIN old :
        /\ p \in DOMAIN new
        /\ new[p].size >= old[p].size
        /\ new[p].compressed_size >= old[p].compressed_size
        /\ \A i \in DOMAIN old[p].items :
              /\ i \in DOMAIN new[p].items
              /\ new[p].items[i].key_len >= old[p].items[i].key_len
              /\ new[p].items[i].compressed_key_len >= old[p].items[i].compressed_key_len
              /\ new[p].items[i].value_len >= old[p].items[i].value_len
              /\ new[p].items[i].compressed_value_len >= old[p].items[i].compressed_value_len
              /\ new[p].items[i].num_entries >= old[p].items[i].num_entries

\* C29: no step of a worker and no step of the merge lowers a field of an
\* existing ItemStat or the size of an existing CategoryStat, or removes a
\* category or an item, in a worker's map or in the merged map.
C29_Monotonic ==
    [][/\ C29_Grows(merged, merged')
       /\ \A w \in Workers : C29_Grows(wFound[w], wFound'[w])]_vars

\* the merge has folded a second map into an item the first map had created:
\* the item of the merged map counts the entries of both
C29_Witness ==
    /\ mergeIdx = 3
    /\ \A w \in {1, 2} : UnknownName \in DOMAIN wFound[w]
    /\ wFound[1][UnknownName].items[UnknownName].num_entries = 1
    /\ wFound[2][UnknownName].items[UnknownName].num_entries = 1
    /\ wFound[1][UnknownName].items[UnknownName].key_len
          > wFound[2][UnknownName].items[UnknownName].key_len
    /\ merged[UnknownName].items[UnknownName].num_entries = 2

\* C30: the index is never mutated after it is built: every step of the
\* producer, the workers and the merge leaves it unchanged, so the key a
\* worker holds is categorized the same before and after any step, of that
\* worker or of another.
C30_IndexImmutable ==
    [][/\ prefix_lookup' = prefix_lookup
       /\ \A w \in Workers :
             wpc[w] = "process" =>
                CategorizePrefix(Unwrap(wItem[w]).key, prefix_lookup')
                   = CategorizePrefix(Unwrap(wItem[w]).key, prefix_lookup)]_vars

\* both workers have categorized records against the index
C30_Witness ==
    /\ \A w \in Workers : wFound[w] # EmptyMap
    /\ \E w \in Workers : wpc[w] = "process"
    /\ prefix_lookup = BuildPrefixLookup(Pallets)
    /\ prefix_lookup # EmptyMap

----------------------------------------------------------------------------
(* Specification of ScaleCompressed::decode on arbitrary payloads *)

\* bytes of a payload: run lengths and run bytes, 0 being no run length
DeflateBytes == {0, 1, 2, 3}

InitDecode ==
    /\ \E payload \in SeqsUpTo(DeflateBytes, MaxDeflateLen) :
          args = [fn |-> "scale_compressed_decode", payload |-> payload,
                  input |-> EncodeVec(payload)]
    /\ ret = [stage |-> "new"]
    /\ returned = FALSE
    /\ prefix_lookup = EmptyMap
    /\ GrepIdle
    /\ InfoIdle

\* ScaleCompressed::<Vec<u8>>::decode(&mut &input[..])
CallDecodeInput ==
    /\ ret.stage = "new"
    /\ ret' = [stage |-> "decoded", result |-> DecodeCompressed(args.input)]
    /\ returned' = TRUE
    /\ UNCHANGED <<args, prefix_lookup, grepVars, infoVars>>

NextDecode == CallDecodeInput

SpecDecode == InitDecode /\ [][NextDecode]_vars

\* the payload is a sequence of (run length, byte) pairs with no empty run
C31_ValidStream(payload) ==
    /\ Len(payload) % 2 = 0
    /\ \A n \in 1..(Len(payload) \div 2) : payload[2 * n - 1] > 0

\* the number of bytes a valid payload codes
C31_InflatedLen(payload) ==
    SumFn([n \in 1..(Len(payload) \div 2) |-> payload[2 * n - 1]])

\* C31: ScaleCompressed::decode returns the 'Data corrupted' error, and no
\* value, when the length-prefixed payload is not a valid compressed stream
\* or inflates to more bytes than the limit.
C31_CorruptedIsError ==
    (ret.stage = "decoded"
     /\ (\/ ~C31_ValidStream(args.payload)
         \/ C31_InflatedLen(args.payload) > DecompressLimit))
        => (~ret.result.ok /\ ret.result = Err("Data corrupted"))

\* two runs of three bytes inflate to more than the limit: 'Data corrupted'
C31_Witness ==
    /\ ret.stage = "decoded"
    /\ args.payload = <<3, 0, 3, 0>>
    /\ C31_ValidStream(args.payload)
    /\ C31_InflatedLen(args.payload) > DecompressLimit
    /\ ret.result = Err("Data corrupted")

----------------------------------------------------------------------------
(* Info::run on a snapshot with two items under one pallet *)

\* records of System/Account and records of System that match no item
PalletSnapshot ==
    {KV(Twox128("System") \o Twox128("Account") \o Junk(4), Zeros(8)),
     KV(Twox128("System") \o Junk(2), Zeros(3))}

PalletProducerSend == ProducerSendFrom(PalletSnapshot)

NextPallet ==
    \/ PalletProducerSend
    \/ ProducerClose
    \/ \E w \in Workers : WorkerLock(w)
    \/ \E w \in Workers : WorkerTryRecv(w)
    \/ \E w \in Workers : WorkerProcess(w)
    \/ \E w \in Workers : WorkerWake(w)
    \/ MergeHandle
    \/ PrintAndWrite

SpecPallet == InitInfo /\ [][NextPallet]_vars

\* the maps the claims speak of: each worker's private map and the
\* accumulator of the merge
C32_Maps == {wFound[w] : w \in Workers} \cup {merged}

\* the sum over the items of a category of key_len + value_len
C32_ItemsSize(pallet_info) ==
    SumFn([i \in DOMAIN pallet_info.items |->
             pallet_info.items[i].key_len + pallet_info.items[i].value_len])

\* C32: in every worker's private map at every step, and in the MergedResult,
\* the raw size of each category equals the sum over its items of
\* key_len + value_len.
C32_SizeIsSumOfItems ==
    \A map \in C32_Maps : \A p \in DOMAIN map :
        map[p].size = C32_ItemsSize(map[p])

\* a complete run in which both workers accumulated under System, one of them
\* under an item the other did not see, and the merged category has two items
C32_Witness ==
    /\ mainPc = "printed"
    /\ \A w \in Workers : "System" \in DOMAIN wFound[w]
    /\ DOMAIN wFound[1]["System"].items # DOMAIN wFound[2]["System"].items
    /\ Cardinality(DOMAIN merged["System"].items) = 2
    /\ merged["System"].size = C32_ItemsSize(merged["System"])
    /\ merged["System"].size > wFound[1]["System"].size

\* the sum over the items of a category of
\* compressed_key_len + compressed_value_len
C33_ItemsCompressedSize(pallet_info) ==
    SumFn([i \in DOMAIN pallet_info.items |->
             pallet_info.items[i].compressed_key_len
             + pallet_info.items[i].compressed_value_len])

\* C33: in every worker's private map at every step, and in the MergedResult,
\* the compressed_size of each category equals the sum over its items of
\* compressed_key_len + compressed_value_len.
C33_CompressedSizeIsSumOfItems ==
    \A map \in C32_Maps : \A p \in DOMAIN map :
        map[p].compressed_size = C33_ItemsCompressedSize(map[p])

----------------------------------------------------------------------------
(* Specification of two calls of para_id_to_address *)

\* the values of each of the two bytes of the ids called with
PairBytes == {0, 1, 2, 255}

\* ids on both sides of every byte boundary, from 0 to 65535
PairParaIds == {lo + 256 * hi : lo \in PairBytes, hi \in PairBytes}

PairArgs == [location : ParaLocations, para_id : PairParaIds]

InitParaPair ==
    /\ \E a \in PairArgs, b \in PairArgs :
          args = [fn |-> "para_id_to_address_pair", a |-> a, b |-> b]
    /\ ret = [a |-> None, b |-> None]
    /\ returned = FALSE
    /\ prefix_lookup = EmptyMap
    /\ GrepIdle
    /\ InfoIdle

\* let address = para_id_to_address(location, para_id), first arguments
CallParaFirst ==
    /\ args.fn = "para_id_to_address_pair"
    /\ ret.a = None
    /\ ret' = [ret EXCEPT !.a = Some(ParaIdToAddress(args.a.location, args.a.para_id))]
    /\ UNCHANGED <<args, returned, prefix_lookup, grepVars, infoVars>>

\* the call with the second arguments
CallParaSecond ==
    /\ args.fn = "para_id_to_address_pair"
    /\ ret.a # None
    /\ ret.b = None
    /\ ret' = [ret EXCEPT !.b = Some(ParaIdToAddress(args.b.location, args.b.para_id))]
    /\ returned' = TRUE
    /\ UNCHANGED <<args, prefix_lookup, grepVars, infoVars>>

NextParaPair == CallParaFirst \/ CallParaSecond

SpecParaPair == InitParaPair /\ [][NextParaPair]_vars

\* C34: para_id_to_address is injective and deterministic: the patterns of
\* two calls are both 32 bytes long and are equal exactly when the two calls
\* have the same location and the same id.
C34_Injective ==
    returned =>
        /\ Len(ret.a[1]) = AddressLen
        /\ Len(ret.b[1]) = AddressLen
        /\ (ret.a[1] = ret.b[1]) <=>
              (args.a.location = args.b.location /\ args.a.para_id = args.b.para_id)

\* ids 1 and 257 share their low byte and give different patterns, in a call
\* pair with the same location
C34_Witness ==
    /\ returned
    /\ args.a = [location |-> "Sibling", para_id |-> 1]
    /\ args.b = [location |-> "Sibling", para_id |-> 257]
    /\ ret.a[1] # ret.b[1]
    /\ ret.a[1][5] = ret.b[1][5]

====
